---- MODULE Spec2Model ----
(***************************************************************************)
(* FTP client protocol engine (package ftp, type Connection).              *)
(*                                                                         *)
(* Bytes are one-character strings, byte slices are sequences of them.     *)
(* Two specifications share the module:                                    *)
(*   SpecFramer  the wire framer (readResponse and its helpers) run read   *)
(*               by read over a byte source that delivers partial reads;   *)
(*   Spec        the Connection's operations, step by step, against a      *)
(*               server and a transport that may fail.                     *)
(***************************************************************************)
EXTENDS Integers, Sequences, FiniteSets, TLC

VARIABLES
    \* ---- wire framer (readResponse) ----
    finput,     \* every byte the control socket will deliver
    fpos,       \* how many of them the reads so far have delivered
    fall,       \* the bytes.Buffer `all` of readResponse
    fdone,      \* the loop variable `done` of readResponse
    ferr,       \* the loop variable `err` of readResponse
    fresult     \* what receive() returned, NoResult while it has not

fvars == <<finput, fpos, fall, fdone, ferr, fresult>>

VARIABLES
    \* ---- the Connection and the operation running on it ----
    ctrl,           \* the control socket c.conn: "none" before the
                    \* dial, then "open" or "closed"
    transferType,   \* c.transferType
    stack,          \* call stack of labels, the running step first
    op,             \* the public operation running and its arguments
    ex,             \* arguments of the executeGetResponse call running
    tt,             \* arguments of the setTransferTypeTo call running
    rv,             \* what the callee that returned last has returned
    resp,           \* local resp of the operation (last reply received)
    dataConn,       \* the data connection: "none", "open" or "closed"
    ret,            \* what the finished operation returns to its caller
    \* ---- history, for the properties ----
    opLog,          \* events of the running operation, in order
    closes,         \* Close calls on the operation's data connection
    lastCmd,        \* first word of the last command written
    recvSinceSend,  \* receive() calls since that command was written
    gapAtSend,      \* recvSinceSend when the operation wrote it
    gapCmd,         \* the command written before it
    ackedType,      \* type of the last TYPE command the server answered
                    \* with 200, ASCII while there is none
    setters         \* the setTransferTypeTo calls: the last of the
                    \* operations before and those of the running one

cvars == <<ctrl, transferType, stack, op, ex, tt, rv, resp, dataConn, ret,
           opLog, closes, lastCmd, recvSinceSend, gapAtSend, gapCmd,
           ackedType, setters>>

vars == <<fvars, cvars>>

\* ------------------------------------------------------------------ bytes

CR == "\r"
LF == "\n"
SP == " "
DASH == "-"
CRLF == <<CR, LF>>

\* An error value: its text, and for errorMessage the command and the reply.
Err(text) == [text |-> text, command |-> "", response |-> <<>>]
NoError == Err("nil")
ReadError == Err("read error")
NoResult == [response |-> <<>>, code |-> <<>>, e |-> Err("none")]

\* ------------------------------------------------------------------ bounds

\* lines per generated control-connection input
MaxLines == 3

\* size of the read buffer of readResponse
BufSize == 1024

\* ------------------------------------------------------- the wire framer

endsInNewLine(msg) ==
    LET l == Len(msg) IN
    IF l < 2 THEN FALSE ELSE msg[l - 1] = CR /\ msg[l] = LF

isSingleLineResponse(msg) == Len(msg) >= 4 /\ msg[4] = SP

isCompleteSingleLineResponse_NoNewLine(msg) == isSingleLineResponse(msg)

isCompleteSingleLineResponse(msg) ==
    isSingleLineResponse(msg) /\ endsInNewLine(msg)

isMultiLineResponse(msg) == Len(msg) >= 4 /\ msg[4] = DASH

\* strings.Split(s, "\r\n"): the parts between the non-overlapping
\* occurrences of CR LF, left to right; one part when there is none.
RECURSIVE SplitCRLF(_)
SplitCRLF(s) ==
    LET hits == {i \in 1..(Len(s) - 1) : s[i] = CR /\ s[i + 1] = LF} IN
    IF hits = {} THEN <<s>>
    ELSE LET i == CHOOSE j \in hits : \A k \in hits : j <= k IN
         <<SubSeq(s, 1, i - 1)>> \o SplitCRLF(SubSeq(s, i + 2, Len(s)))

lastLineEndsInSameCodeAsFirstLine(msg) ==
    LET lines == SplitCRLF(msg) IN
    IF Len(lines) < 3 THEN FALSE
    ELSE LET first == lines[1]
             last == lines[Len(lines) - 1]
         IN IF Len(first) < 3 \/ Len(last) < 4 THEN FALSE
            ELSE SubSeq(last, 1, 4) = SubSeq(first, 1, 3) \o <<SP>>

isCompleteMultiLineResponse(msg) ==
    isMultiLineResponse(msg) /\ lastLineEndsInSameCodeAsFirstLine(msg)

isCompleteResponse(msg) ==
    isCompleteSingleLineResponse(msg) \/ isCompleteMultiLineResponse(msg)

extractCode_Whole(msg) == msg

extractCode(msg) ==
    IF Len(msg) <= 3 THEN msg ELSE SubSeq(msg, 1, 3)

\* One con.Read: rd.err is the read's error, rd.bytes the buf[:n] it filled.
\* Returns the new (dest, done, err).
readResponseInto_KeepsReading(rd, dest) ==
    IF rd.err # NoError
    THEN [dest |-> dest, done |-> FALSE, err |-> rd.err]
    ELSE LET d == dest \o rd.bytes IN
         [dest |-> d, done |-> isCompleteResponse(d), err |-> NoError]

readResponseInto(rd, dest) ==
    IF rd.err # NoError
    THEN [dest |-> dest, done |-> TRUE, err |-> rd.err]
    ELSE LET d == dest \o rd.bytes IN
         [dest |-> d, done |-> isCompleteResponse(d), err |-> NoError]

\* receive(): the reply, its code and the error, as readResponse left them.
receive(all, err) == [response |-> all, code |-> extractCode(all), e |-> err]

\* ------------------------------------------- the framer, read by read

Code211 == <<"2", "1", "1">>
Code212 == <<"2", "1", "2">>
Digits == {"0", "1", "2", "3", "4", "5", "6", "7", "8", "9"}
IsCode(c) == Len(c) = 3 /\ \A i \in 1..3 : c[i] \in Digits

\* The lines the byte source is built from: a code and a space, a code and
\* a dash, a bare code, a code cut short, text, and a lone space.
FLines ==
    {c \o <<s>> : c \in {Code211, Code212}, s \in {SP, DASH}}
        \cup {Code211, <<"2", "5">>, <<"x">>, <<SP>>}

RECURSIVE FTerminated(_)
FTerminated(k) ==
    IF k = 0 THEN {<<>>}
    ELSE {p \o l \o CRLF : p \in FTerminated(k - 1), l \in FLines}

\* Up to MaxLines lines, the last one with or without its CR LF.
FInputs ==
    UNION {{p \o l \o t : p \in FTerminated(k - 1), l \in FLines,
                          t \in {CRLF, <<>>}} : k \in 1..MaxLines}

Min(a, b) == IF a < b THEN a ELSE b

FramerInit ==
    /\ finput \in FInputs
    /\ fpos = 0
    /\ fall = <<>>
    /\ fdone = FALSE
    /\ ferr = NoError
    /\ fresult = NoResult

\* One pass of the loop of readResponse with the read `rd`; when it ends
\* the loop, readResponse returns and receive() hands out its result.
FramerStep(rd) ==
    LET r == readResponseInto(rd, fall) IN
    /\ fall' = r.dest
    /\ fdone' = r.done
    /\ ferr' = r.err
    /\ fresult' = IF r.done THEN receive(r.dest, r.err) ELSE fresult

\* con.Read delivers the next n bytes, n at least 1 and at most the buffer.
FramerRead ==
    /\ ~fdone
    /\ fpos < Len(finput)
    /\ \E n \in 1..Min(BufSize, Len(finput) - fpos) :
          /\ FramerStep([bytes |-> SubSeq(finput, fpos + 1, fpos + n),
                         err |-> NoError])
          /\ fpos' = fpos + n
    /\ UNCHANGED finput
    /\ UNCHANGED cvars

\* con.Read fails (connection reset, EOF, deadline).
FramerReadFails ==
    /\ ~fdone
    /\ FramerStep([bytes |-> <<>>, err |-> ReadError])
    /\ UNCHANGED <<finput, fpos>>
    /\ UNCHANGED cvars

FramerNext == FramerRead \/ FramerReadFails

\* ---------------------------------------------------------- response codes

restartMarkerOrAboutToOpen == <<"1", "5", "0">>
commandOk == <<"2", "0", "0">>
systemStatusOrHelpReply == <<"2", "1", "1">>
directoryStatus == <<"2", "1", "2">>
fileStatus == <<"2", "1", "3">>
systemName == <<"2", "1", "5">>
serviceReadyForNewUser == <<"2", "2", "0">>
serviceClosingControlConnection == <<"2", "2", "1">>
noTransferInProgress == <<"2", "2", "5">>
closingDataConnection == <<"2", "2", "6">>
enteringPassiveMode == <<"2", "2", "7">>
userLoggedIn_Proceed == <<"2", "3", "0">>
fileActionCompleted == <<"2", "5", "0">>
pathNameCreated == <<"2", "5", "7">>
userNameOK_NeedPassword == <<"3", "3", "1">>
connectionClosed_TransferAborter == <<"4", "2", "6">>
syntaxErrorUnknown == <<"5", "0", "0">>

\* responseCode.ok(): a positive reply (preliminary, completion or
\* intermediate).
ok(code) == Len(code) = 3 /\ code[1] \in {"1", "2", "3"}

\* ------------------------------------------------------ errors and values

WriteError == Err("write error")
DialError == Err("dial error")
CopyError == Err("copy error")
CloseError == Err("close error")

errorMessage(command, response) ==
    [text |-> "FTP server responded to  with error: ",
     command |-> command, response |-> response]

Nil == <<>>
NoRet == [op |-> "", err |-> NoError, val |-> Nil]
NoRv == [resp |-> Nil, err |-> NoError]
NoOp == [name |-> ""]
NoEx == [expectedCode |-> Nil, args |-> <<>>, from |-> 0]
NoTt == [t |-> "", symbol |-> "", before |-> ""]

transferASCII == "ASCII"
transferBinary == "binary"

\* --------------------------------------------- the server and the transport

ServerCodes ==
    {restartMarkerOrAboutToOpen, commandOk, systemStatusOrHelpReply,
     directoryStatus, fileStatus, serviceReadyForNewUser,
     serviceClosingControlConnection, noTransferInProgress,
     closingDataConnection, enteringPassiveMode, userLoggedIn_Proceed,
     fileActionCompleted, userNameOK_NeedPassword,
     connectionClosed_TransferAborter, syntaxErrorUnknown, systemName,
     pathNameCreated}

ReplyOf(code) == code \o <<SP>> \o CRLF

PasvReply ==
    enteringPassiveMode
        \o <<SP, "(", "1", ",", "2", ",", "3", ",", "4", ",", "5", ",", "6",
             ")">> \o CRLF

\* Further replies to PASV: the tuple (127,0,0,1,200,13) behind some text
\* and before a full stop, a tuple of five numbers, and a reply that is
\* not 227 but carries a tuple.
PasvReplyText ==
    enteringPassiveMode
        \o <<SP, "M", SP, "(", "1", "2", "7", ",", "0", ",", "0", ",", "1",
             ",", "2", "0", "0", ",", "1", "3", ")", ".">> \o CRLF

PasvReplyShort ==
    enteringPassiveMode
        \o <<SP, "(", "1", ",", "2", ",", "3", ",", "4", ",", "5", ")">>
        \o CRLF

OkReplyWithTuple ==
    commandOk
        \o <<SP, "(", "1", ",", "2", ",", "3", ",", "4", ",", "5", ",", "6",
             ")">> \o CRLF

\* Replies to MKD and PWD that carry a quoted path, and a reply to SYST
\* that carries a name.
QUOTE == "\""

PathReply ==
    pathNameCreated
        \o <<SP, QUOTE, "/", "f", QUOTE, SP, "c", "r", "e", "a", "t", "e",
             "d">> \o CRLF

SystReply == systemName \o <<SP, "U", "N", "I", "X">> \o CRLF

MultiLineStatus ==
    systemStatusOrHelpReply \o <<DASH, "a">> \o CRLF
        \o systemStatusOrHelpReply \o <<SP, "b">> \o CRLF

ServerReplies ==
    {ReplyOf(c) : c \in ServerCodes}
        \cup {PasvReply, PasvReplyText, PasvReplyShort, OkReplyWithTuple,
              MultiLineStatus, PathReply, SystReply}

Good(bytes) == [bytes |-> bytes, err |-> NoError]
Failed == [bytes |-> <<>>, err |-> ReadError]

\* What the control socket delivers to one receive(): a reply in one read,
\* a reply in two reads, a failing read, or the start of a reply and then a
\* failing read.
RecvScripts ==
    {<<Good(r)>> : r \in ServerReplies}
        \cup {<<Good(SubSeq(r, 1, 2)), Good(SubSeq(r, 3, Len(r)))>> :
                r \in ServerReplies}
        \cup {<<Failed>>, <<Good(<<"2", "2">>), Failed>>}

SendOutcomes == {NoError, WriteError}
DialOutcomes == {NoError, DialError}
CopyOutcomes == {NoError, CopyError}
CloseOutcomes == {NoError, CloseError}

Users == {"u"}
Passwords == {"p"}
Paths == {"", "f"}

\* ------------------------------------------------- send and receive

RECURSIVE JoinWords(_)
JoinWords(words) ==
    IF Len(words) = 0 THEN <<>>
    ELSE IF Len(words) = 1 THEN <<words[1]>>
    ELSE <<words[1], SP>> \o JoinWords(Tail(words))

\* The bytes send(words...) writes: the words joined by spaces, and CR LF.
sendMsg(words) == JoinWords(words) \o CRLF

sendWithoutEmptyString_Always(cmd, arg) == <<cmd, arg>>

\* The words sendWithoutEmptyString(cmd, arg) passes to send.
sendWithoutEmptyString(cmd, arg) ==
    IF arg = "" THEN <<cmd>> ELSE <<cmd, arg>>

\* The loop of readResponse over the reads `conn` delivers, in order.
RECURSIVE readResponseLoop(_, _)
readResponseLoop(conn, all) ==
    IF conn = <<>> THEN [dest |-> all, done |-> FALSE, err |-> NoError]
    ELSE LET r == readResponseInto(Head(conn), all) IN
         IF r.done THEN r ELSE readResponseLoop(Tail(conn), r.dest)

readResponse(conn) == readResponseLoop(conn, <<>>)

\* The events an operation logs.
SendEv(words, e) == [ev |-> "send", msg |-> sendMsg(words), err |-> e]
RecvEv(r) == [ev |-> "recv", response |-> r.response, code |-> r.code,
              err |-> r.e]
DialEv(addr, e) == [ev |-> "dial", addr |-> addr, err |-> e]
CopyEv(e) == [ev |-> "copy", err |-> e]
CloseEv(e) == [ev |-> "close", err |-> e]

\* A command is written (e is the outcome of conn.Write).
SendHist(words, e) ==
    /\ UNCHANGED ackedType
    /\ IF e = NoError
       THEN /\ lastCmd' = words[1]
            /\ gapCmd' = lastCmd
            /\ gapAtSend' = recvSinceSend
            /\ recvSinceSend' = 0
       ELSE UNCHANGED <<lastCmd, gapCmd, gapAtSend, recvSinceSend>>

\* receive() is called.
RecvHist ==
    /\ recvSinceSend' = recvSinceSend + 1
    /\ UNCHANGED <<lastCmd, gapCmd, gapAtSend>>

\* receive() returned r: a reply 200 to the TYPE command written just
\* before is the server's acknowledgement of that type.
AckHist(r) ==
    ackedType' =
        IF /\ r.e = NoError /\ r.code = commandOk
           /\ opLog # <<>>
           /\ opLog[Len(opLog)].ev = "send"
           /\ opLog[Len(opLog)].err = NoError
           /\ opLog[Len(opLog)].msg[1] = "TYPE"
        THEN IF opLog[Len(opLog)].msg[3] = "A" THEN transferASCII
             ELSE transferBinary
        ELSE ackedType

\* c.send(words...) with the outcome e of conn.Write.
Send(words, e) ==
    /\ opLog' = Append(opLog, SendEv(words, e))
    /\ SendHist(words, e)

\* c.receive() that returned r.
Recv(r) ==
    /\ opLog' = Append(opLog, RecvEv(r))
    /\ RecvHist
    /\ AckHist(r)

\* The results receive() can return on this transport.
Received ==
    {receive(x.dest, x.err) :
        x \in {y \in {readResponse(sc) : sc \in RecvScripts} : y.done}}

ioHist == <<lastCmd, recvSinceSend, gapAtSend, gapCmd, ackedType>>

\* ----------------------------------------------------- calls and returns

At(label) == Head(stack) = label

Goto(label) == stack' = <<label>> \o Tail(stack)

\* The public operation returns (e, val) to its caller.
Finish(e, val) ==
    /\ stack' = <<"done">>
    /\ ret' = [op |-> op.name, err |-> e, val |-> val]

\* The callee returns r to the step below it on the stack.
ReturnRv(r) ==
    /\ stack' = Tail(stack)
    /\ rv' = r

\* c.execute(success, args...), to continue at `back`.
CallExecute(success, args, back) ==
    /\ ex' = [expectedCode |-> success, args |-> args, from |-> Len(opLog)]
    /\ stack' = <<"executeGetResponse_send", "execute_return", back>>
                    \o Tail(stack)

\* c.executeGetResponse(expectedCode, args...), to continue at `back`.
CallExecuteGetResponse(expectedCode, args, back) ==
    /\ ex' = [expectedCode |-> expectedCode, args |-> args,
              from |-> Len(opLog)]
    /\ stack' = <<"executeGetResponse_send", back>> \o Tail(stack)

\* ------------------------------------------------------------ newConnection

ConnInit ==
    /\ ctrl = "none"
    /\ transferType = transferASCII
    /\ stack = <<"ConnectLogging">>
    /\ op = [name |-> "newConnection"]
    /\ ex = NoEx
    /\ tt = NoTt
    /\ rv = NoRv
    /\ resp = Nil
    /\ dataConn = "none"
    /\ ret = NoRet
    /\ opLog = <<>>
    /\ closes = 0
    /\ lastCmd = ""
    /\ recvSinceSend = 0
    /\ gapAtSend = 0
    /\ gapCmd = ""
    /\ ackedType = transferASCII
    /\ setters = <<>>

\* Connect, ConnectLogging: dial the control socket and hand it to
\* newConnection; a failed dial is returned and leaves no socket.
ConnectLogging ==
    /\ At("ConnectLogging")
    /\ \E e \in DialOutcomes :
         IF e # NoError
         THEN /\ stack' = <<"dialFailed">>
              /\ ret' = [op |-> "ConnectLogging", err |-> e, val |-> Nil]
              /\ UNCHANGED ctrl
         ELSE /\ ctrl' = "open"
              /\ Goto("newConnection")
              /\ UNCHANGED ret
    /\ UNCHANGED fvars
    /\ UNCHANGED <<transferType, op, ex, tt, rv, resp, dataConn, opLog,
                   closes, ioHist, setters>>

newConnection_AnyGreeting ==
    /\ At("newConnection")
    /\ \E r \in Received :
         /\ Recv(r)
         /\ resp' = r.response
         /\ IF r.e # NoError
            THEN /\ stack' = <<"failed">>
                 /\ ret' = [op |-> "newConnection", err |-> r.e, val |-> Nil]
            ELSE Finish(NoError, "Connection")
    /\ UNCHANGED fvars
    /\ UNCHANGED <<ctrl, transferType, op, ex, tt, rv, dataConn, closes,
                   setters>>

\* newConnection: read the greeting; a Connection only for code 220.
newConnection ==
    /\ At("newConnection")
    /\ \E r \in Received :
         /\ Recv(r)
         /\ resp' = r.response
         /\ IF r.e # NoError
            THEN /\ stack' = <<"failed">>
                 /\ ret' = [op |-> "newConnection", err |-> r.e, val |-> Nil]
            ELSE IF r.code # serviceReadyForNewUser
            THEN /\ stack' = <<"failed">>
                 /\ ret' = [op |-> "newConnection",
                            err |-> errorMessage("connect", r.response),
                            val |-> Nil]
            ELSE Finish(NoError, "Connection")
    /\ UNCHANGED fvars
    /\ UNCHANGED <<ctrl, transferType, op, ex, tt, rv, dataConn, closes,
                   setters>>

\* The caller takes the result; the Connection is ready for the next call.
Return ==
    /\ At("done")
    /\ stack' = <<"idle">>
    /\ op' = NoOp
    /\ ex' = NoEx
    /\ tt' = NoTt
    /\ rv' = NoRv
    /\ resp' = Nil
    /\ dataConn' = "none"
    /\ ret' = NoRet
    /\ opLog' = <<>>
    /\ closes' = 0
    /\ gapAtSend' = 0
    /\ gapCmd' = ""
    /\ setters' = IF setters = <<>> THEN <<>> ELSE <<setters[Len(setters)]>>
    /\ UNCHANGED fvars
    /\ UNCHANGED <<ctrl, transferType, lastCmd, recvSinceSend, ackedType>>

\* Close(): closes the control socket.
Close ==
    /\ At("idle")
    /\ ctrl = "open"
    /\ ctrl' = "closed"
    /\ stack' = <<"closed">>
    /\ UNCHANGED fvars
    /\ UNCHANGED <<transferType, op, ex, tt, rv, resp, dataConn, ret, opLog,
                   closes, ioHist, setters>>

Idle == At("idle") /\ ctrl = "open"

\* --------------------------------------------- execute, executeGetResponse

executeGetResponse_send_NoReceive ==
    /\ At("executeGetResponse_send")
    /\ \E e \in SendOutcomes :
         /\ Send(ex.args, e)
         /\ ReturnRv([resp |-> Nil, err |-> e])
    /\ UNCHANGED fvars
    /\ UNCHANGED <<ctrl, transferType, op, ex, tt, resp, dataConn, ret,
                   closes, setters>>

executeGetResponse_send ==
    /\ At("executeGetResponse_send")
    /\ \E e \in SendOutcomes :
         /\ Send(ex.args, e)
         /\ IF e # NoError
            THEN ReturnRv([resp |-> Nil, err |-> e])
            ELSE Goto("executeGetResponse_receive") /\ UNCHANGED rv
    /\ UNCHANGED fvars
    /\ UNCHANGED <<ctrl, transferType, op, ex, tt, resp, dataConn, ret,
                   closes, setters>>

executeGetResponse_result_AnyCode(r, expectedCode, args) ==
    IF r.e # NoError THEN [resp |-> Nil, err |-> r.e]
    ELSE [resp |-> r.response, err |-> NoError]

\* What executeGetResponse returns once receive() has returned r.
executeGetResponse_result(r, expectedCode, args) ==
    IF r.e # NoError THEN [resp |-> Nil, err |-> r.e]
    ELSE IF r.code = expectedCode THEN [resp |-> r.response, err |-> NoError]
    ELSE [resp |-> Nil, err |-> errorMessage(args[1], r.response)]

executeGetResponse_receive ==
    /\ At("executeGetResponse_receive")
    /\ \E r \in Received :
         /\ Recv(r)
         /\ ReturnRv(executeGetResponse_result(r, ex.expectedCode, ex.args))
    /\ UNCHANGED fvars
    /\ UNCHANGED <<ctrl, transferType, op, ex, tt, resp, dataConn, ret,
                   closes, setters>>

\* execute: executeGetResponse with the reply dropped.
execute_return ==
    /\ At("execute_return")
    /\ ReturnRv([resp |-> Nil, err |-> rv.err])
    /\ UNCHANGED fvars
    /\ UNCHANGED <<ctrl, transferType, op, ex, tt, resp, dataConn, ret,
                   opLog, closes, ioHist, setters>>

\* The operations that are one execute call.
ExecuteOps ==
    {[name |-> "NoOperation", success |-> commandOk, args |-> <<"NOOP">>],
     [name |-> "Quit", success |-> serviceClosingControlConnection,
      args |-> <<"QUIT">>]}
    \cup {[name |-> "ChangeWorkingDirTo", success |-> fileActionCompleted,
           args |-> <<"CWD", p>>] : p \in Paths}
    \cup {[name |-> "Delete", success |-> fileActionCompleted,
           args |-> <<"DELE", p>>] : p \in Paths}
    \cup {[name |-> "RemoveDirectory", success |-> fileActionCompleted,
           args |-> <<"RMD", p>>] : p \in Paths}

\* ChangeWorkingDirTo, Quit, Delete, RemoveDirectory, NoOperation.
ExecuteOp ==
    /\ Idle
    /\ \E o \in ExecuteOps :
         /\ op' = o
         /\ CallExecute(o.success, o.args, "ExecuteOp_return")
    /\ UNCHANGED fvars
    /\ UNCHANGED <<ctrl, transferType, tt, rv, resp, dataConn, ret, opLog,
                   closes, ioHist, setters>>

ExecuteOp_return ==
    /\ At("ExecuteOp_return")
    /\ Finish(rv.err, Nil)
    /\ UNCHANGED fvars
    /\ UNCHANGED <<ctrl, transferType, op, ex, tt, rv, resp, dataConn, opLog,
                   closes, ioHist, setters>>

\* -------------------------------------------------------------------- Login

Login_afterUSER_PassAlways(code) ==
    IF code = userNameOK_NeedPassword \/ code = userLoggedIn_Proceed
    THEN "PASS" ELSE "error"

\* What Login does with the code of the reply to USER.
Login_afterUSER(code) ==
    IF code = userLoggedIn_Proceed THEN "return nil"
    ELSE IF code = userNameOK_NeedPassword THEN "PASS"
    ELSE "error"

Login ==
    /\ Idle
    /\ \E user \in Users, password \in Passwords, e \in SendOutcomes :
         /\ op' = [name |-> "Login", user |-> user, password |-> password]
         /\ Send(<<"USER", user>>, e)
         /\ IF e # NoError
            THEN /\ stack' = <<"done">>
                 /\ ret' = [op |-> "Login", err |-> e, val |-> Nil]
            ELSE Goto("Login_receive") /\ UNCHANGED ret
    /\ UNCHANGED fvars
    /\ UNCHANGED <<ctrl, transferType, ex, tt, rv, resp, dataConn, closes,
                   setters>>

Login_receive ==
    /\ At("Login_receive")
    /\ \E r \in Received :
         /\ Recv(r)
         /\ resp' = r.response
         /\ IF r.e # NoError
            THEN Finish(r.e, Nil) /\ UNCHANGED ex
            ELSE LET todo == Login_afterUSER(r.code) IN
                 IF todo = "return nil"
                 THEN Finish(NoError, Nil) /\ UNCHANGED ex
                 ELSE IF todo = "PASS"
                 THEN /\ ex' = [expectedCode |-> userLoggedIn_Proceed,
                                args |-> <<"PASS", op.password>>,
                                from |-> Len(opLog) + 1]
                      /\ stack' = <<"executeGetResponse_send",
                                    "execute_return", "Login_return">>
                      /\ UNCHANGED ret
                 ELSE Finish(errorMessage("USER", r.response), Nil)
                          /\ UNCHANGED ex
    /\ UNCHANGED fvars
    /\ UNCHANGED <<ctrl, transferType, op, tt, rv, dataConn, closes, setters>>

Login_return ==
    /\ At("Login_return")
    /\ Finish(rv.err, Nil)
    /\ UNCHANGED fvars
    /\ UNCHANGED <<ctrl, transferType, op, ex, tt, rv, resp, dataConn, opLog,
                   closes, ioHist, setters>>

\* ----------------------------------------------------------------- StatusOf

GeneralStatus == "status"
FileStatus == "file status"
DirectoryStatus == "directory status"

statusTypeOfCode(code) ==
    IF code = systemStatusOrHelpReply THEN [typ |-> GeneralStatus, ok |-> TRUE]
    ELSE IF code = directoryStatus THEN [typ |-> DirectoryStatus, ok |-> TRUE]
    ELSE IF code = fileStatus THEN [typ |-> FileStatus, ok |-> TRUE]
    ELSE [typ |-> "", ok |-> FALSE]

\* strings.TrimSuffix(s, "\r\n")
TrimCRLF(s) == IF endsInNewLine(s) THEN SubSeq(s, 1, Len(s) - 2) ELSE s

\* strings.LastIndex(s, "\r\n"), 0-based, -1 when there is none.
LastIndexCRLF(s) ==
    LET hits == {i \in 1..(Len(s) - 1) : s[i] = CR /\ s[i + 1] = LF} IN
    IF hits = {} THEN -1
    ELSE (CHOOSE j \in hits : \A k \in hits : k <= j) - 1

\* removeControlSymbols; "panic" where a slice bound is out of range.
removeControlSymbols(r) ==
    IF Len(r) < 4 THEN <<"panic">>
    ELSE LET noCodeOrNewLine == TrimCRLF(SubSeq(r, 5, Len(r))) IN
         IF isSingleLineResponse(r) THEN noCodeOrNewLine
         ELSE LET lastLineStart == LastIndexCRLF(noCodeOrNewLine) IN
              IF lastLineStart + 6 > Len(noCodeOrNewLine) THEN <<"panic">>
              ELSE TrimCRLF(
                       SubSeq(noCodeOrNewLine, 1, lastLineStart + 2)
                       \o SubSeq(noCodeOrNewLine, lastLineStart + 7,
                                 Len(noCodeOrNewLine)))

\* Status() is StatusOf("").
StatusOf ==
    /\ Idle
    /\ \E path \in Paths, e \in SendOutcomes :
         /\ op' = [name |-> "StatusOf", path |-> path]
         /\ Send(sendWithoutEmptyString("STAT", path), e)
         /\ IF e # NoError
            THEN /\ stack' = <<"done">>
                 /\ ret' = [op |-> "StatusOf", err |-> e, val |-> Nil]
            ELSE Goto("StatusOf_receive") /\ UNCHANGED ret
    /\ UNCHANGED fvars
    /\ UNCHANGED <<ctrl, transferType, ex, tt, rv, resp, dataConn, closes,
                   setters>>

StatusOf_receive ==
    /\ At("StatusOf_receive")
    /\ \E r \in Received :
         /\ Recv(r)
         /\ resp' = r.response
         /\ IF r.e # NoError
            THEN Finish(r.e, Nil)
            ELSE LET st == statusTypeOfCode(r.code) IN
                 IF st.ok
                 THEN Finish(NoError,
                             [typ |-> st.typ,
                              text |-> removeControlSymbols(r.response)])
                 ELSE Finish(errorMessage("STAT", r.response), Nil)
    /\ UNCHANGED fvars
    /\ UNCHANGED <<ctrl, transferType, op, ex, tt, rv, dataConn, closes,
                   setters>>

\* ------------------------------ MakeDirectory, PrintWorkingDirectory, System

\* "." of the pattern: no byte of s[a..b] is a line feed.
NoLF(s, a, b) == \A k \in a..b : s[k] # LF

\* pathMatcher, [0-9][0-9][0-9][ |-]"(.+)".*\r\n: every way it matches
\* resp, as the positions <<i, j>> of the first digit and the closing quote.
pathMatcher(r) ==
    {m \in (1..Len(r)) \X (1..Len(r)) :
        /\ m[1] + 4 <= Len(r)
        /\ \A k \in m[1]..(m[1] + 2) : r[k] \in Digits
        /\ r[m[1] + 3] \in {SP, "|", DASH}
        /\ r[m[1] + 4] = QUOTE
        /\ m[2] >= m[1] + 6
        /\ r[m[2]] = QUOTE
        /\ NoLF(r, m[1] + 5, m[2] - 1)
        /\ \E k \in (m[2] + 1)..(Len(r) - 1) :
              r[k] = CR /\ r[k + 1] = LF /\ NoLF(r, m[2] + 1, k - 1)}

\* getPathFromResponse: the text between the quotes of the leftmost match,
\* the group taken as long as it can be.
getPathFromResponse(r) ==
    LET ms == pathMatcher(r) IN
    IF ms = {}
    THEN [path |-> Nil, err |-> errorMessage("path extraction", r)]
    ELSE LET i == CHOOSE a \in {m[1] : m \in ms} :
                      \A b \in {m[1] : m \in ms} : a <= b
             j == CHOOSE a \in {m[2] : m \in {n \in ms : n[1] = i}} :
                      \A b \in {m[2] : m \in {n \in ms : n[1] = i}} : b <= a
         IN [path |-> SubSeq(r, i + 5, j - 1), err |-> NoError]

MakeDirectory ==
    /\ Idle
    /\ \E path \in Paths :
         /\ op' = [name |-> "MakeDirectory", path |-> path]
         /\ CallExecuteGetResponse(pathNameCreated, <<"MKD", path>>,
                                   "MakeDirectory_return")
    /\ UNCHANGED fvars
    /\ UNCHANGED <<ctrl, transferType, tt, rv, resp, dataConn, ret, opLog,
                   closes, ioHist, setters>>

MakeDirectory_return ==
    /\ At("MakeDirectory_return")
    /\ IF rv.err # NoError
       THEN Finish(rv.err, Nil)
       ELSE LET p == getPathFromResponse(rv.resp) IN Finish(p.err, p.path)
    /\ UNCHANGED fvars
    /\ UNCHANGED <<ctrl, transferType, op, ex, tt, rv, resp, dataConn, opLog,
                   closes, ioHist, setters>>

PrintWorkingDirectory ==
    /\ Idle
    /\ op' = [name |-> "PrintWorkingDirectory"]
    /\ CallExecuteGetResponse(pathNameCreated, <<"PWD">>,
                              "PrintWorkingDirectory_return")
    /\ UNCHANGED fvars
    /\ UNCHANGED <<ctrl, transferType, tt, rv, resp, dataConn, ret, opLog,
                   closes, ioHist, setters>>

PrintWorkingDirectory_return ==
    /\ At("PrintWorkingDirectory_return")
    /\ IF rv.err # NoError
       THEN Finish(rv.err, Nil)
       ELSE LET p == getPathFromResponse(rv.resp) IN Finish(p.err, p.path)
    /\ UNCHANGED fvars
    /\ UNCHANGED <<ctrl, transferType, op, ex, tt, rv, resp, dataConn, opLog,
                   closes, ioHist, setters>>

System ==
    /\ Idle
    /\ op' = [name |-> "System"]
    /\ CallExecuteGetResponse(systemName, <<"SYST">>, "System_return")
    /\ UNCHANGED fvars
    /\ UNCHANGED <<ctrl, transferType, tt, rv, resp, dataConn, ret, opLog,
                   closes, ioHist, setters>>

System_return ==
    /\ At("System_return")
    /\ IF rv.err # NoError
       THEN Finish(rv.err, Nil)
       ELSE Finish(NoError, removeControlSymbols(rv.resp))
    /\ UNCHANGED fvars
    /\ UNCHANGED <<ctrl, transferType, op, ex, tt, rv, resp, dataConn, opLog,
                   closes, ioHist, setters>>

\* -------------------------------------------------------------------- Abort

Abort_afterFirst_Strict(code) ==
    IF code = noTransferInProgress \/ code = closingDataConnection
    THEN "return nil"
    ELSE "error"

\* What Abort does with the code of the first reply to ABOR.
Abort_afterFirst(code) ==
    IF code = noTransferInProgress \/ code = closingDataConnection
    THEN "return nil"
    ELSE IF code = connectionClosed_TransferAborter THEN "receive"
    ELSE "error"

\* Abort, up to the write of sendAndReceive.
Abort ==
    /\ Idle
    /\ \E e \in SendOutcomes :
         /\ op' = [name |-> "Abort"]
         /\ Send(<<"ABOR">>, e)
         /\ IF e # NoError
            THEN /\ stack' = <<"done">>
                 /\ ret' = [op |-> "Abort", err |-> e, val |-> Nil]
            ELSE Goto("Abort_receive") /\ UNCHANGED ret
    /\ UNCHANGED fvars
    /\ UNCHANGED <<ctrl, transferType, ex, tt, rv, resp, dataConn, closes,
                   setters>>

\* The receive of sendAndReceive and the branch on its code.
Abort_receive ==
    /\ At("Abort_receive")
    /\ \E r \in Received :
         /\ Recv(r)
         /\ resp' = r.response
         /\ IF r.e # NoError
            THEN Finish(r.e, Nil)
            ELSE LET todo == Abort_afterFirst(r.code) IN
                 IF todo = "return nil" THEN Finish(NoError, Nil)
                 ELSE IF todo = "receive"
                 THEN Goto("Abort_receive2") /\ UNCHANGED ret
                 ELSE Finish(errorMessage("ABOR", r.response), Nil)
    /\ UNCHANGED fvars
    /\ UNCHANGED <<ctrl, transferType, op, ex, tt, rv, dataConn, closes,
                   setters>>

\* The second receive, after connectionClosed_TransferAborter.
Abort_receive2 ==
    /\ At("Abort_receive2")
    /\ \E r \in Received :
         /\ Recv(r)
         /\ resp' = r.response
         /\ IF r.e # NoError
            THEN Finish(r.e, Nil)
            ELSE IF r.code = closingDataConnection
            THEN Finish(NoError, Nil)
            ELSE Finish(errorMessage("ABOR", r.response), Nil)
    /\ UNCHANGED fvars
    /\ UNCHANGED <<ctrl, transferType, op, ex, tt, rv, dataConn, closes,
                   setters>>

\* -------------------------------------------------------- setTransferTypeTo

setASCIITransfer == [t |-> transferASCII, symbol |-> "A"]
setBinaryTransfer == [t |-> transferBinary, symbol |-> "I"]

\* The log positions after `from` where the command `words` was written
\* (or its write attempted).
SentSince(from, words) ==
    {i \in (from + 1)..Len(opLog) :
        opLog[i].ev = "send" /\ opLog[i].msg = sendMsg(words)}

\* The record of a finished setTransferTypeTo call, kept with the one
\* before it: the type asked for, the tracked type before the call, how
\* many TYPE commands the call wrote, whether a reply to it was read,
\* whether the call returned nil.
Noted(t, before, sends, replied, e) ==
    LET call == [t |-> t, before |-> before, sends |-> sends,
                 replied |-> replied, ok |-> e = NoError] IN
    IF setters = <<>> THEN <<call>> ELSE <<setters[Len(setters)], call>>

\* c.setTransferTypeTo(set.t, set.symbol), to continue at `back`.
CallSetTransferTypeTo(set, back) ==
    /\ tt' = [t |-> set.t, symbol |-> set.symbol, before |-> transferType]
    /\ stack' = <<"setTransferTypeTo", back>> \o Tail(stack)

setTransferTypeTo_isSet_Never(current, t) == FALSE

\* The test that lets setTransferTypeTo return without a command.
setTransferTypeTo_isSet(current, t) == current = t

setTransferTypeTo ==
    /\ At("setTransferTypeTo")
    /\ IF setTransferTypeTo_isSet(transferType, tt.t)
       THEN /\ ReturnRv([resp |-> Nil, err |-> NoError])
            /\ setters' = Noted(tt.t, tt.before, 0, FALSE, NoError)
            /\ UNCHANGED ex
       ELSE /\ ex' = [expectedCode |-> commandOk,
                      args |-> <<"TYPE", tt.symbol>>, from |-> Len(opLog)]
            /\ stack' = <<"executeGetResponse_send", "execute_return",
                          "setTransferTypeTo_return">> \o Tail(stack)
            /\ UNCHANGED <<rv, setters>>
    /\ UNCHANGED fvars
    /\ UNCHANGED <<ctrl, transferType, op, tt, resp, dataConn, ret, opLog,
                   closes, ioHist>>

setTransferTypeTo_return_AlwaysSets ==
    /\ At("setTransferTypeTo_return")
    /\ transferType' = tt.t
    /\ ReturnRv([resp |-> Nil, err |-> rv.err])
    /\ setters' = Noted(tt.t, tt.before,
                         Cardinality(SentSince(ex.from,
                                               <<"TYPE", tt.symbol>>)),
                         opLog[Len(opLog)].ev = "recv"
                             /\ opLog[Len(opLog)].err = NoError,
                         rv.err)
    /\ UNCHANGED fvars
    /\ UNCHANGED <<ctrl, op, ex, tt, resp, dataConn, ret, opLog, closes,
                   ioHist>>

setTransferTypeTo_return ==
    /\ At("setTransferTypeTo_return")
    /\ transferType' = IF rv.err = NoError THEN tt.t ELSE transferType
    /\ ReturnRv([resp |-> Nil, err |-> rv.err])
    /\ setters' = Noted(tt.t, tt.before,
                         Cardinality(SentSince(ex.from,
                                               <<"TYPE", tt.symbol>>)),
                         opLog[Len(opLog)].ev = "recv"
                             /\ opLog[Len(opLog)].err = NoError,
                         rv.err)
    /\ UNCHANGED fvars
    /\ UNCHANGED <<ctrl, op, ex, tt, resp, dataConn, ret, opLog, closes,
                   ioHist>>

\* ---------------------------------------------------------- enterPassiveMode

IsNumber(s) == Len(s) >= 1 /\ \A i \in 1..Len(s) : s[i] \in Digits

DigitValue(d) ==
    CASE d = "0" -> 0 [] d = "1" -> 1 [] d = "2" -> 2 [] d = "3" -> 3
      [] d = "4" -> 4 [] d = "5" -> 5 [] d = "6" -> 6 [] d = "7" -> 7
      [] d = "8" -> 8 [] d = "9" -> 9

DigitChar(n) ==
    CASE n = 0 -> "0" [] n = 1 -> "1" [] n = 2 -> "2" [] n = 3 -> "3"
      [] n = 4 -> "4" [] n = 5 -> "5" [] n = 6 -> "6" [] n = 7 -> "7"
      [] n = 8 -> "8" [] n = 9 -> "9"

\* strconv.Atoi of a string of digits
RECURSIVE Atoi(_)
Atoi(s) ==
    IF Len(s) = 0 THEN 0
    ELSE 10 * Atoi(SubSeq(s, 1, Len(s) - 1)) + DigitValue(s[Len(s)])

\* strconv.Itoa of a number >= 0
RECURSIVE Itoa(_)
Itoa(n) ==
    IF n < 10 THEN <<DigitChar(n)>>
    ELSE Itoa(n \div 10) \o <<DigitChar(n % 10)>>

\* The parts of s between its commas.
RECURSIVE SplitComma(_)
SplitComma(s) ==
    LET hits == {i \in 1..Len(s) : s[i] = ","} IN
    IF hits = {} THEN <<s>>
    ELSE LET i == CHOOSE j \in hits : \A k \in hits : j <= k IN
         <<SubSeq(s, 1, i - 1)>> \o SplitComma(SubSeq(s, i + 1, Len(s)))

\* The tuple that opens at msg[i]: "(" , six numbers between commas, ")".
TupleAt(msg, i) ==
    LET ends == {j \in (i + 1)..Len(msg) : msg[j] = ")"}
        j == IF ends = {} THEN 0
             ELSE CHOOSE x \in ends : \A y \in ends : x <= y
        parts == IF j = 0 THEN <<>> ELSE SplitComma(SubSeq(msg, i + 1, j - 1))
    IN [ok |-> msg[i] = "(" /\ j # 0 /\ Len(parts) = 6
                  /\ \A k \in 1..Len(parts) : IsNumber(parts[k]),
        parts |-> parts]

getAddressOfPasvResponse_LowHigh(msg) ==
    LET at == {i \in 1..Len(msg) : TupleAt(msg, i).ok} IN
    IF at = {}
    THEN [addr |-> Nil, err |-> errorMessage("address extraction", msg)]
    ELSE LET pick == CHOOSE i \in at : \A k \in at : k <= i
             p == TupleAt(msg, pick).parts
             ip == p[1] \o <<".">> \o p[2] \o <<".">> \o p[3] \o <<".">>
                       \o p[4]
             port == Itoa(Atoi(p[5]) + 256 * Atoi(p[6]))
         IN [addr |-> ip \o <<":">> \o port, err |-> NoError]

\* addrMatcher on msg: the match starts at the first line that holds a
\* tuple and, ".*" being greedy, takes the last tuple of that line.
getAddressOfPasvResponse(msg) ==
    LET at == {i \in 1..Len(msg) : TupleAt(msg, i).ok} IN
    IF at = {}
    THEN [addr |-> Nil, err |-> errorMessage("address extraction", msg)]
    ELSE LET first == CHOOSE i \in at : \A k \in at : i <= k
             nls == {n \in first..Len(msg) : msg[n] = LF}
             stop == IF nls = {} THEN Len(msg) + 1
                     ELSE CHOOSE n \in nls : \A m \in nls : n <= m
             inLine == {i \in at : i < stop}
             pick == CHOOSE i \in inLine : \A k \in inLine : k <= i
             p == TupleAt(msg, pick).parts
             ip == p[1] \o <<".">> \o p[2] \o <<".">> \o p[3] \o <<".">>
                       \o p[4]
             port == Itoa(256 * Atoi(p[5]) + Atoi(p[6]))
         IN [addr |-> ip \o <<":">> \o port, err |-> NoError]

\* c.enterPassiveMode(), to continue at `back`.
CallEnterPassiveMode(back) ==
    /\ ex' = [expectedCode |-> enteringPassiveMode, args |-> <<"PASV">>,
              from |-> Len(opLog)]
    /\ stack' = <<"executeGetResponse_send", "enterPassiveMode_return",
                  back>> \o Tail(stack)

\* enterPassiveMode after its executeGetResponse: the address and the dial.
enterPassiveMode_return ==
    /\ At("enterPassiveMode_return")
    /\ IF rv.err # NoError
       THEN /\ ReturnRv([resp |-> Nil, err |-> rv.err])
            /\ UNCHANGED <<dataConn, opLog>>
       ELSE LET a == getAddressOfPasvResponse(rv.resp) IN
            IF a.err # NoError
            THEN /\ ReturnRv([resp |-> Nil, err |-> a.err])
                 /\ UNCHANGED <<dataConn, opLog>>
            ELSE \E e \in DialOutcomes :
                   /\ opLog' = Append(opLog, DialEv(a.addr, e))
                   /\ dataConn' = IF e = NoError THEN "open" ELSE dataConn
                   /\ ReturnRv([resp |-> Nil, err |-> e])
    /\ UNCHANGED fvars
    /\ UNCHANGED <<ctrl, transferType, op, ex, tt, resp, ret, closes, ioHist,
                   setters>>

\* ----------------------------------------------------------------- Download

Download ==
    /\ Idle
    /\ \E path \in Paths :
         /\ op' = [name |-> "Download", cmd |-> "RETR", path |-> path]
         /\ CallSetTransferTypeTo(setBinaryTransfer, "Download_afterType")
    /\ UNCHANGED fvars
    /\ UNCHANGED <<ctrl, transferType, ex, rv, resp, dataConn, ret, opLog,
                   closes, ioHist, setters>>

Download_afterType_IgnoresError ==
    /\ At("Download_afterType")
    /\ CallEnterPassiveMode("Download_send") /\ UNCHANGED ret
    /\ UNCHANGED fvars
    /\ UNCHANGED <<ctrl, transferType, op, tt, rv, resp, dataConn, opLog,
                   closes, ioHist, setters>>

Download_afterType ==
    /\ At("Download_afterType")
    /\ IF rv.err # NoError
       THEN Finish(rv.err, Nil) /\ UNCHANGED ex
       ELSE CallEnterPassiveMode("Download_send") /\ UNCHANGED ret
    /\ UNCHANGED fvars
    /\ UNCHANGED <<ctrl, transferType, op, tt, rv, resp, dataConn, opLog,
                   closes, ioHist, setters>>

\* After enterPassiveMode: the RETR command.
Download_send ==
    /\ At("Download_send")
    /\ IF rv.err # NoError
       THEN /\ Finish(rv.err, Nil)
            /\ UNCHANGED <<opLog, ioHist, dataConn, closes>>
       ELSE \E e \in SendOutcomes, ce \in CloseOutcomes :
              /\ SendHist(<<"RETR", op.path>>, e)
              /\ IF e # NoError
                 THEN /\ opLog' = opLog \o <<SendEv(<<"RETR", op.path>>, e),
                                             CloseEv(ce)>>
                      /\ dataConn' = "closed"
                      /\ closes' = closes + 1
                      /\ Finish(e, Nil)
                 ELSE /\ opLog' = Append(opLog,
                                         SendEv(<<"RETR", op.path>>, e))
                      /\ Goto("Download_receive")
                      /\ UNCHANGED <<dataConn, closes, ret>>
    /\ UNCHANGED fvars
    /\ UNCHANGED <<ctrl, transferType, op, ex, tt, rv, resp, setters>>

\* The reply to RETR.
Download_receive ==
    /\ At("Download_receive")
    /\ \E r \in Received, ce \in CloseOutcomes :
         /\ RecvHist
         /\ AckHist(r)
         /\ resp' = r.response
         /\ IF r.e # NoError \/ ~ok(r.code)
            THEN /\ opLog' = opLog \o <<RecvEv(r), CloseEv(ce)>>
                 /\ dataConn' = "closed"
                 /\ closes' = closes + 1
                 /\ Finish(IF r.e # NoError THEN r.e
                           ELSE errorMessage("RETR", r.response), Nil)
            ELSE /\ opLog' = Append(opLog, RecvEv(r))
                 /\ Goto("Download_copy")
                 /\ UNCHANGED <<dataConn, closes, ret>>
    /\ UNCHANGED fvars
    /\ UNCHANGED <<ctrl, transferType, op, ex, tt, rv, setters>>

Download_copyFailed_NoClose(e, ce) ==
    /\ opLog' = Append(opLog, CopyEv(e))
    /\ UNCHANGED <<dataConn, closes>>
    /\ Finish(e, Nil)

\* Download when io.Copy has failed with e: close, and return e.
Download_copyFailed(e, ce) ==
    /\ opLog' = opLog \o <<CopyEv(e), CloseEv(ce)>>
    /\ dataConn' = "closed"
    /\ closes' = closes + 1
    /\ Finish(e, Nil)

Download_copy_SkipsClose ==
    /\ At("Download_copy")
    /\ \E e \in CopyOutcomes, ce \in CloseOutcomes :
         IF e # NoError
         THEN Download_copyFailed(e, ce)
         ELSE /\ opLog' = Append(opLog, CopyEv(e))
              /\ Goto("Download_receive2")
              /\ UNCHANGED <<dataConn, closes, ret>>
    /\ UNCHANGED fvars
    /\ UNCHANGED <<ctrl, transferType, op, ex, tt, rv, resp, ioHist, setters>>

\* io.Copy(dest, dataConn)
Download_copy ==
    /\ At("Download_copy")
    /\ \E e \in CopyOutcomes, ce \in CloseOutcomes :
         IF e # NoError
         THEN Download_copyFailed(e, ce)
         ELSE /\ opLog' = Append(opLog, CopyEv(e))
              /\ Goto("Download_close")
              /\ UNCHANGED <<dataConn, closes, ret>>
    /\ UNCHANGED fvars
    /\ UNCHANGED <<ctrl, transferType, op, ex, tt, rv, resp, ioHist, setters>>

\* err = dataConn.Close() after the copy
Download_close ==
    /\ At("Download_close")
    /\ \E ce \in CloseOutcomes :
         /\ opLog' = Append(opLog, CloseEv(ce))
         /\ dataConn' = "closed"
         /\ closes' = closes + 1
         /\ IF ce # NoError
            THEN Finish(ce, Nil)
            ELSE Goto("Download_receive2") /\ UNCHANGED ret
    /\ UNCHANGED fvars
    /\ UNCHANGED <<ctrl, transferType, op, ex, tt, rv, resp, ioHist, setters>>

\* The final confirmation.
Download_receive2 ==
    /\ At("Download_receive2")
    /\ \E r \in Received :
         /\ Recv(r)
         /\ resp' = r.response
         /\ IF r.e # NoError THEN Finish(r.e, Nil)
            ELSE IF ~ok(r.code)
            THEN Finish(errorMessage("RETR", r.response), Nil)
            ELSE Finish(NoError, Nil)
    /\ UNCHANGED fvars
    /\ UNCHANGED <<ctrl, transferType, op, ex, tt, rv, dataConn, closes,
                   setters>>

\* ------------------------------------------------------------------- upload

\* Upload(source, path) is upload("STOR", path, source).
Upload ==
    /\ Idle
    /\ \E path \in Paths :
         /\ op' = [name |-> "Upload", cmd |-> "STOR", path |-> path]
         /\ CallSetTransferTypeTo(setBinaryTransfer, "upload_afterType")
    /\ UNCHANGED fvars
    /\ UNCHANGED <<ctrl, transferType, ex, rv, resp, dataConn, ret, opLog,
                   closes, ioHist, setters>>

upload_afterType ==
    /\ At("upload_afterType")
    /\ IF rv.err # NoError
       THEN Finish(rv.err, Nil) /\ UNCHANGED ex
       ELSE CallEnterPassiveMode("upload_send") /\ UNCHANGED ret
    /\ UNCHANGED fvars
    /\ UNCHANGED <<ctrl, transferType, op, tt, rv, resp, dataConn, opLog,
                   closes, ioHist, setters>>

\* After enterPassiveMode: the transfer command.
upload_send ==
    /\ At("upload_send")
    /\ IF rv.err # NoError
       THEN /\ Finish(rv.err, Nil)
            /\ UNCHANGED <<opLog, ioHist, dataConn, closes>>
       ELSE \E e \in SendOutcomes, ce \in CloseOutcomes :
              LET words == sendWithoutEmptyString(op.cmd, op.path) IN
              /\ SendHist(words, e)
              /\ IF e # NoError
                 THEN /\ opLog' = opLog \o <<SendEv(words, e), CloseEv(ce)>>
                      /\ dataConn' = "closed"
                      /\ closes' = closes + 1
                      /\ Finish(e, Nil)
                 ELSE /\ opLog' = Append(opLog, SendEv(words, e))
                      /\ Goto("upload_receive")
                      /\ UNCHANGED <<dataConn, closes, ret>>
    /\ UNCHANGED fvars
    /\ UNCHANGED <<ctrl, transferType, op, ex, tt, rv, resp, setters>>

\* The reply to the transfer command.
upload_receive ==
    /\ At("upload_receive")
    /\ \E r \in Received, ce \in CloseOutcomes :
         /\ RecvHist
         /\ AckHist(r)
         /\ resp' = r.response
         /\ IF r.e # NoError \/ ~ok(r.code)
            THEN /\ opLog' = opLog \o <<RecvEv(r), CloseEv(ce)>>
                 /\ dataConn' = "closed"
                 /\ closes' = closes + 1
                 /\ Finish(IF r.e # NoError THEN r.e
                           ELSE errorMessage(op.cmd, r.response), Nil)
            ELSE /\ opLog' = Append(opLog, RecvEv(r))
                 /\ Goto("upload_copy")
                 /\ UNCHANGED <<dataConn, closes, ret>>
    /\ UNCHANGED fvars
    /\ UNCHANGED <<ctrl, transferType, op, ex, tt, rv, setters>>

\* io.Copy(dataConn, source)
upload_copy ==
    /\ At("upload_copy")
    /\ \E e \in CopyOutcomes, ce \in CloseOutcomes :
         IF e # NoError
         THEN /\ opLog' = opLog \o <<CopyEv(e), CloseEv(ce)>>
              /\ dataConn' = "closed"
              /\ closes' = closes + 1
              /\ Finish(e, Nil)
         ELSE /\ opLog' = Append(opLog, CopyEv(e))
              /\ Goto("upload_close")
              /\ UNCHANGED <<dataConn, closes, ret>>
    /\ UNCHANGED fvars
    /\ UNCHANGED <<ctrl, transferType, op, ex, tt, rv, resp, ioHist, setters>>

\* err = dataConn.Close() after the copy
upload_close ==
    /\ At("upload_close")
    /\ \E ce \in CloseOutcomes :
         /\ opLog' = Append(opLog, CloseEv(ce))
         /\ dataConn' = "closed"
         /\ closes' = closes + 1
         /\ IF ce # NoError
            THEN Finish(ce, Nil)
            ELSE Goto("upload_receive2") /\ UNCHANGED ret
    /\ UNCHANGED fvars
    /\ UNCHANGED <<ctrl, transferType, op, ex, tt, rv, resp, ioHist, setters>>

\* The final confirmation.
upload_receive2 ==
    /\ At("upload_receive2")
    /\ \E r \in Received :
         /\ Recv(r)
         /\ resp' = r.response
         /\ IF r.e # NoError THEN Finish(r.e, Nil)
            ELSE IF ~ok(r.code)
            THEN Finish(errorMessage(op.cmd, r.response), Nil)
            ELSE Finish(NoError, Nil)
    /\ UNCHANGED fvars
    /\ UNCHANGED <<ctrl, transferType, op, ex, tt, rv, dataConn, closes,
                   setters>>

\* ------------------------------------------------------ readListCommandData

ListCommands == {"LIST", "NLST"}

readListCommandData ==
    /\ Idle
    /\ \E cmd \in ListCommands, path \in Paths :
         /\ op' = [name |-> "readListCommandData", cmd |-> cmd,
                   path |-> path]
         /\ CallSetTransferTypeTo(setASCIITransfer,
                                  "readListCommandData_afterType")
    /\ UNCHANGED fvars
    /\ UNCHANGED <<ctrl, transferType, ex, rv, resp, dataConn, ret, opLog,
                   closes, ioHist, setters>>

readListCommandData_afterType ==
    /\ At("readListCommandData_afterType")
    /\ IF rv.err # NoError
       THEN Finish(rv.err, Nil) /\ UNCHANGED ex
       ELSE CallEnterPassiveMode("readListCommandData_send")
                /\ UNCHANGED ret
    /\ UNCHANGED fvars
    /\ UNCHANGED <<ctrl, transferType, op, tt, rv, resp, dataConn, opLog,
                   closes, ioHist, setters>>

\* After enterPassiveMode: defer dataConn.Close(), and the list command.
\* The deferred Close runs wherever the function returns from here on.
readListCommandData_send ==
    /\ At("readListCommandData_send")
    /\ IF rv.err # NoError
       THEN /\ Finish(rv.err, Nil)
            /\ UNCHANGED <<opLog, ioHist, dataConn, closes>>
       ELSE \E e \in SendOutcomes, ce \in CloseOutcomes :
              LET words == sendWithoutEmptyString(op.cmd, op.path) IN
              /\ SendHist(words, e)
              /\ IF e # NoError
                 THEN /\ opLog' = opLog \o <<SendEv(words, e), CloseEv(ce)>>
                      /\ dataConn' = "closed"
                      /\ closes' = closes + 1
                      /\ Finish(e, Nil)
                 ELSE /\ opLog' = Append(opLog, SendEv(words, e))
                      /\ Goto("readListCommandData_receive")
                      /\ UNCHANGED <<dataConn, closes, ret>>
    /\ UNCHANGED fvars
    /\ UNCHANGED <<ctrl, transferType, op, ex, tt, rv, resp, setters>>

\* The reply to the list command.
readListCommandData_receive ==
    /\ At("readListCommandData_receive")
    /\ \E r \in Received, ce \in CloseOutcomes :
         /\ RecvHist
         /\ AckHist(r)
         /\ resp' = r.response
         /\ IF r.e # NoError \/ ~ok(r.code)
            THEN /\ opLog' = opLog \o <<RecvEv(r), CloseEv(ce)>>
                 /\ dataConn' = "closed"
                 /\ closes' = closes + 1
                 /\ Finish(IF r.e # NoError THEN r.e
                           ELSE errorMessage(op.cmd, r.response), Nil)
            ELSE /\ opLog' = Append(opLog, RecvEv(r))
                 /\ Goto("readListCommandData_readAll")
                 /\ UNCHANGED <<dataConn, closes, ret>>
    /\ UNCHANGED fvars
    /\ UNCHANGED <<ctrl, transferType, op, ex, tt, rv, setters>>

\* ioutil.ReadAll(dataConn)
readListCommandData_readAll ==
    /\ At("readListCommandData_readAll")
    /\ \E e \in CopyOutcomes, ce \in CloseOutcomes :
         IF e # NoError
         THEN /\ opLog' = opLog \o <<CopyEv(e), CloseEv(ce)>>
              /\ dataConn' = "closed"
              /\ closes' = closes + 1
              /\ Finish(e, Nil)
         ELSE /\ opLog' = Append(opLog, CopyEv(e))
              /\ Goto("readListCommandData_receive2")
              /\ UNCHANGED <<dataConn, closes, ret>>
    /\ UNCHANGED fvars
    /\ UNCHANGED <<ctrl, transferType, op, ex, tt, rv, resp, ioHist, setters>>

\* The final confirmation, and the deferred Close on the way out.
readListCommandData_receive2 ==
    /\ At("readListCommandData_receive2")
    /\ \E r \in Received, ce \in CloseOutcomes :
         /\ RecvHist
         /\ AckHist(r)
         /\ resp' = r.response
         /\ opLog' = opLog \o <<RecvEv(r), CloseEv(ce)>>
         /\ dataConn' = "closed"
         /\ closes' = closes + 1
         /\ IF r.e # NoError THEN Finish(r.e, Nil)
            ELSE IF ~ok(r.code)
            THEN Finish(errorMessage(op.cmd, r.response), Nil)
            ELSE Finish(NoError, <<"data">>)
    /\ UNCHANGED fvars
    /\ UNCHANGED <<ctrl, transferType, op, ex, tt, rv, setters>>

\* ---------------------------------------------------------- specifications

ConnParked ==
    /\ ctrl = "closed"
    /\ transferType = transferASCII
    /\ stack = <<"closed">>
    /\ op = NoOp
    /\ ex = NoEx
    /\ tt = NoTt
    /\ rv = NoRv
    /\ resp = Nil
    /\ dataConn = "none"
    /\ ret = NoRet
    /\ opLog = <<>>
    /\ closes = 0
    /\ lastCmd = ""
    /\ recvSinceSend = 0
    /\ gapAtSend = 0
    /\ gapCmd = ""
    /\ ackedType = transferASCII
    /\ setters = <<>>

FramerParked ==
    /\ finput = <<>>
    /\ fpos = 0
    /\ fall = <<>>
    /\ fdone = TRUE
    /\ ferr = NoError
    /\ fresult = NoResult

InitFramer == FramerInit /\ ConnParked

SpecFramer == InitFramer /\ [][FramerNext]_vars

Init == ConnInit /\ FramerParked

Next ==
    \/ ConnectLogging
    \/ newConnection
    \/ Return
    \/ Close
    \/ executeGetResponse_send
    \/ executeGetResponse_receive
    \/ execute_return
    \/ ExecuteOp
    \/ ExecuteOp_return
    \/ Login
    \/ Login_receive
    \/ Login_return
    \/ StatusOf
    \/ StatusOf_receive
    \/ MakeDirectory
    \/ MakeDirectory_return
    \/ PrintWorkingDirectory
    \/ PrintWorkingDirectory_return
    \/ System
    \/ System_return
    \/ Abort
    \/ Abort_receive
    \/ Abort_receive2
    \/ setTransferTypeTo
    \/ setTransferTypeTo_return
    \/ enterPassiveMode_return
    \/ Download
    \/ Download_afterType
    \/ Download_send
    \/ Download_receive
    \/ Download_copy
    \/ Download_close
    \/ Download_receive2
    \/ Upload
    \/ upload_afterType
    \/ upload_send
    \/ upload_receive
    \/ upload_copy
    \/ upload_close
    \/ upload_receive2
    \/ readListCommandData
    \/ readListCommandData_afterType
    \/ readListCommandData_send
    \/ readListCommandData_receive
    \/ readListCommandData_readAll
    \/ readListCommandData_receive2

Spec == Init /\ [][Next]_vars

\* ------------------------------------------------ claims on the Connection

Done(name) == At("done") /\ op.name = name

TwoReplyCommands == {"ABOR", "RETR", "STOR", "LIST", "NLST"}

\* C1 (as claimed): every command written is followed by exactly one
\* response read before the next command is written.
C1_ExactlyOneReadPerCommand ==
    gapCmd # "" => gapAtSend = 1

\* C1 (amended): a command is written only after the command before it has
\* been followed by at least one receive() call: exactly one, or two after
\* ABOR, RETR, STOR, LIST and NLST (the second reply of an abort, the final
\* confirmation of a transfer); never none, never more than two.
C1_OneOrTwoReadsPerCommand ==
    /\ gapCmd # "" =>
         /\ gapAtSend \in {1, 2}
         /\ gapAtSend = 2 => gapCmd \in TwoReplyCommands
    /\ lastCmd # "" =>
         /\ recvSinceSend <= 2
         /\ recvSinceSend = 2 => lastCmd \in TwoReplyCommands
         /\ (At("idle") \/ At("done")) => recvSinceSend >= 1

C1_Witness ==
    /\ gapCmd = "RETR"
    /\ gapAtSend = 2
    /\ lastCmd = "ABOR"

IsDial(e) == e.ev = "dial" /\ e.err = NoError
IsDialEv(e) == e.ev = "dial"
IsClose(e) == e.ev = "close"
IsFailedCopy(e) == e.ev = "copy" /\ e.err # NoError
Has(log, Test(_)) == \E i \in 1..Len(log) : Test(log[i])

TransferOps == {"Download", "Upload", "readListCommandData"}

\* C2: once enterPassiveMode has returned a data connection, Download,
\* Upload and the list routine close it exactly once on every exit path,
\* and a failed copy is returned as the copy error.
C2_DataConnClosedOnce ==
    /\ closes = Len(SelectSeq(opLog, IsClose))
    /\ closes <= 1
    /\ closes = 1 => Has(opLog, IsDial)
    /\ (At("done") /\ op.name \in TransferOps) =>
         /\ Has(opLog, IsDial) => (closes = 1 /\ dataConn = "closed")
         /\ ~Has(opLog, IsDial) => (closes = 0 /\ dataConn = "none")
         /\ Has(opLog, IsFailedCopy) => ret.err = CopyError

C2_Witness ==
    /\ Done("Download")
    /\ Has(opLog, IsFailedCopy)
    /\ opLog[Len(opLog)] = CloseEv(CloseError)
    /\ closes = 1
    /\ ret.err = CopyError

\* executeGetResponse has just returned to its caller.
ExecuteReturned == At("execute_return") \/ At("enterPassiveMode_return")

ExecuteEvents == SubSeq(opLog, ex.from + 1, Len(opLog))

\* C7 (as claimed): execute sends one command and reads one reply; it
\* succeeds, returning the raw reply, iff the reply code is the expected
\* one, and otherwise fails with an error carrying the command name and
\* the raw reply.
C7_ExecuteOneExchange ==
    ExecuteReturned =>
        LET evs == ExecuteEvents IN
        /\ Len(evs) = 2
        /\ evs[1].ev = "send" /\ evs[1].msg = sendMsg(ex.args)
        /\ evs[2].ev = "recv"
        /\ rv.err = NoError <=> evs[2].code = ex.expectedCode
        /\ rv.err = NoError => rv.resp = evs[2].response
        /\ rv.err # NoError =>
             rv.err = errorMessage(ex.args[1], evs[2].response)

\* C7 (amended): execute writes one command, once; it reads one reply when
\* the write succeeded and none when it failed; a transport error of the
\* write or of the read is returned as it is; with a reply read, it
\* succeeds, returning the raw reply, iff the reply code equals the
\* expected code, and otherwise returns errorMessage(command name, reply).
C7_ExecuteOneExchangeUnlessTransportFails ==
    ExecuteReturned =>
        LET evs == ExecuteEvents IN
        /\ Len(evs) \in {1, 2}
        /\ evs[1].ev = "send" /\ evs[1].msg = sendMsg(ex.args)
        /\ Len(evs) = 1 <=> evs[1].err # NoError
        /\ Len(evs) = 1 => rv = [resp |-> Nil, err |-> evs[1].err]
        /\ Len(evs) = 2 =>
             /\ evs[2].ev = "recv"
             /\ evs[2].err # NoError => rv = [resp |-> Nil, err |-> evs[2].err]
             /\ (evs[2].err = NoError /\ evs[2].code = ex.expectedCode)
                   => rv = [resp |-> evs[2].response, err |-> NoError]
             /\ (evs[2].err = NoError /\ evs[2].code # ex.expectedCode)
                   => rv = [resp |-> Nil,
                            err |-> errorMessage(ex.args[1],
                                                 evs[2].response)]

C7_Witness ==
    /\ At("execute_return")
    /\ ex.args = <<"NOOP">>
    /\ Len(ExecuteEvents) = 2
    /\ rv.err = errorMessage("NOOP", ReplyOf(syntaxErrorUnknown))

\* C8 (as claimed): two calls of the Binary-mode setter in a row (the
\* tracked type being ASCII before, every TYPE command written being
\* answered by the server) send TYPE I exactly once.
C8_TwiceInARowSendsOnce ==
    (Len(setters) = 2 /\ setters[1].t = transferBinary
        /\ setters[2].t = transferBinary
        /\ setters[1].before = transferASCII
        /\ \A i \in 1..2 : setters[i].sends = 1 => setters[i].replied)
    => setters[1].sends + setters[2].sends = 1

\* C8 (amended): a setter call sends no command when the tracked type
\* already equals the requested type and one TYPE command otherwise; of two
\* Binary-mode setter calls in a row the second sends nothing when the
\* first returned nil, and sends TYPE I again when the first call failed.
C8_SetterSendsOnlyOnChange ==
    /\ \A i \in 1..Len(setters) :
         /\ setters[i].before = setters[i].t => setters[i].sends = 0
         /\ setters[i].before # setters[i].t => setters[i].sends = 1
    /\ (Len(setters) = 2 /\ setters[1].t = setters[2].t) =>
         /\ setters[1].ok => setters[2].sends = 0
         /\ (~setters[1].ok) => setters[2].sends = 1

C8_Witness ==
    /\ Len(setters) = 2
    /\ setters[1] = [t |-> transferBinary, before |-> transferASCII,
                     sends |-> 1, replied |-> TRUE, ok |-> TRUE]
    /\ setters[2] = [t |-> transferBinary, before |-> transferBinary,
                     sends |-> 0, replied |-> FALSE, ok |-> TRUE]

IsPASS(e) == e.ev = "send" /\ e.msg[1] = "PASS"
IsSend(e) == e.ev = "send"

\* C9: Login sends USER first; on 230 it succeeds without sending PASS; on
\* 331 it sends PASS once and succeeds iff that reply is 230; on any other
\* reply to USER it fails with an error naming USER and sends no PASS.
C9_LoginBranching ==
    Done("Login") =>
        /\ opLog[1].ev = "send"
        /\ opLog[1].msg = sendMsg(<<"USER", op.user>>)
        /\ Len(SelectSeq(opLog, IsPASS)) <= 1
        /\ (Len(opLog) >= 2 /\ opLog[2].err = NoError) =>
             /\ opLog[2].ev = "recv"
             /\ opLog[2].code = userLoggedIn_Proceed =>
                  (ret.err = NoError /\ Len(opLog) = 2)
             /\ opLog[2].code = userNameOK_NeedPassword =>
                  /\ Len(opLog) >= 3
                  /\ opLog[3].ev = "send"
                  /\ opLog[3].msg = sendMsg(<<"PASS", op.password>>)
                  /\ Len(SelectSeq(opLog, IsSend)) = 2
                  /\ ret.err = NoError <=>
                       (Len(opLog) = 4 /\ opLog[4].ev = "recv"
                          /\ opLog[4].err = NoError
                          /\ opLog[4].code = userLoggedIn_Proceed)
             /\ opLog[2].code \notin {userLoggedIn_Proceed,
                                      userNameOK_NeedPassword} =>
                  /\ ret.err = errorMessage("USER", opLog[2].response)
                  /\ Len(opLog) = 2

C9_Witness ==
    /\ Done("Login")
    /\ Len(opLog) = 4
    /\ opLog[2].code = userNameOK_NeedPassword
    /\ opLog[4].code = userLoggedIn_Proceed
    /\ ret.err = NoError

\* C10: Abort sends ABOR once; a first reply 225 or 226 is success with no
\* further read; a first reply 426 makes it read exactly one more reply
\* and succeed iff that one is 226; every other first or second reply
\* gives an error naming ABOR.
C10_AbortTwoPhase ==
    Done("Abort") =>
        /\ opLog[1] \in {SendEv(<<"ABOR">>, e) : e \in SendOutcomes}
        /\ Len(SelectSeq(opLog, IsSend)) = 1
        /\ Len(opLog) <= 3
        /\ (Len(opLog) >= 2 /\ opLog[2].err = NoError) =>
             /\ opLog[2].ev = "recv"
             /\ opLog[2].code \in {noTransferInProgress,
                                   closingDataConnection} =>
                  (ret.err = NoError /\ Len(opLog) = 2)
             /\ opLog[2].code = connectionClosed_TransferAborter =>
                  /\ Len(opLog) = 3
                  /\ opLog[3].ev = "recv"
                  /\ ret.err = NoError <=>
                       (opLog[3].err = NoError
                          /\ opLog[3].code = closingDataConnection)
                  /\ (opLog[3].err = NoError
                        /\ opLog[3].code # closingDataConnection) =>
                       ret.err = errorMessage("ABOR", opLog[3].response)
             /\ opLog[2].code \notin {noTransferInProgress,
                                      closingDataConnection,
                                      connectionClosed_TransferAborter} =>
                  /\ ret.err = errorMessage("ABOR", opLog[2].response)
                  /\ Len(opLog) = 2

C10_Witness ==
    /\ Done("Abort")
    /\ Len(opLog) = 3
    /\ opLog[2].code = connectionClosed_TransferAborter
    /\ opLog[3].code = closingDataConnection
    /\ ret.err = NoError

\* The replies to PASV that carry the tuple (h1,h2,h3,h4,p1,p2), and the
\* address h1.h2.h3.h4:(p1*256+p2) of each.
PasvTuples ==
    {[reply |-> PasvReply,
      addr |-> <<"1", ".", "2", ".", "3", ".", "4", ":",
                 "1", "2", "8", "6">>],
     [reply |-> PasvReplyText,
      addr |-> <<"1", "2", "7", ".", "0", ".", "0", ".", "1", ":",
                 "5", "1", "2", "1", "3">>]}

\* enterPassiveMode has just returned to the transfer that called it.
AfterEnterPassiveMode ==
    At("Download_send") \/ At("upload_send")
        \/ At("readListCommandData_send")

\* C11: enterPassiveMode dials h1.h2.h3.h4:(p1*256+p2) for a 227 reply
\* that carries the tuple (h1,h2,h3,h4,p1,p2); when the reply to PASV is
\* not 227 or carries no such tuple it returns an error and dials nothing.
C11_PassiveAddress ==
    /\ \A i \in 1..Len(opLog) :
         opLog[i].ev = "dial" =>
            /\ i >= 3
            /\ opLog[i - 2] = SendEv(<<"PASV">>, NoError)
            /\ opLog[i - 1].ev = "recv" /\ opLog[i - 1].err = NoError
            /\ opLog[i - 1].code = enteringPassiveMode
            /\ \E c \in PasvTuples :
                  c.reply = opLog[i - 1].response /\ c.addr = opLog[i].addr
    /\ AfterEnterPassiveMode =>
         LET n == Len(opLog) IN
         IF opLog[n].ev = "dial"
         THEN /\ rv.err = opLog[n].err
              /\ dataConn = (IF rv.err = NoError THEN "open" ELSE "none")
         ELSE /\ rv.err # NoError
              /\ dataConn = "none"
              /\ ~Has(opLog, IsDialEv)
              /\ (opLog[n].ev = "recv" /\ opLog[n].err = NoError) =>
                   \A c \in PasvTuples : c.reply # opLog[n].response

C11_Witness ==
    /\ AfterEnterPassiveMode
    /\ Len(opLog) >= 3
    /\ opLog[Len(opLog) - 1].ev = "recv"
    /\ opLog[Len(opLog) - 1].response = PasvReplyText
    /\ opLog[Len(opLog)] =
          DialEv(<<"1", "2", "7", ".", "0", ".", "0", ".", "1", ":",
                   "5", "1", "2", "1", "3">>, NoError)
    /\ dataConn = "open"

\* newConnection has returned, with a Connection or with an error.
Connected == (At("done") /\ op.name = "newConnection") \/ At("failed")

\* C14: creating a Connection reads exactly one greeting reply before any
\* command is sent and yields a Connection, with transfer type ASCII, iff
\* the greeting was read without error and its code is 220; otherwise it
\* yields an error and no Connection.
C14_GreetingMustBe220 ==
    /\ At("newConnection") => (opLog = <<>> /\ lastCmd = "")
    /\ Connected =>
         /\ Len(opLog) = 1 /\ opLog[1].ev = "recv"
         /\ lastCmd = "" /\ recvSinceSend = 1
         /\ ret.val = "Connection" <=>
               (opLog[1].err = NoError
                   /\ opLog[1].code = serviceReadyForNewUser)
         /\ ret.val = "Connection" =>
               (At("done") /\ ret.err = NoError
                   /\ transferType = transferASCII)
         /\ ret.val # "Connection" =>
               /\ At("failed") /\ ret.val = Nil
               /\ ret.err = IF opLog[1].err # NoError THEN opLog[1].err
                             ELSE errorMessage("connect", opLog[1].response)

C14_Witness ==
    /\ At("done") /\ op.name = "newConnection"
    /\ opLog[1].response = ReplyOf(serviceReadyForNewUser)
    /\ ret.val = "Connection"
    /\ transferType = transferASCII

\* The command word of the last command written before event i.
CmdBefore(i) ==
    LET sends == {k \in 1..(i - 1) : opLog[k].ev = "send"} IN
    IF sends = {} THEN ""
    ELSE opLog[CHOOSE k \in sends : \A m \in sends : m <= k].msg[1]

\* The reply codes each exchange expects.
Expected(cmd, code) ==
    CASE cmd = "TYPE" -> code = commandOk
      [] cmd = "PASV" -> code = enteringPassiveMode
      [] cmd = "USER" -> code \in {userLoggedIn_Proceed,
                                   userNameOK_NeedPassword}
      [] cmd = "PASS" -> code = userLoggedIn_Proceed
      [] cmd = "STAT" -> code \in {systemStatusOrHelpReply, directoryStatus,
                                   fileStatus}
      [] OTHER -> ok(code)

\* Event i is an exchange-level failure: a failed send, a failed reply
\* read, or a reply whose code is not the expected one.
ExchangeFailure(i) ==
    \/ opLog[i].ev = "send" /\ opLog[i].err # NoError
    \/ opLog[i].ev = "recv" /\ opLog[i].err # NoError
    \/ opLog[i].ev = "recv" /\ opLog[i].err = NoError
          /\ ~Expected(CmdBefore(i), opLog[i].code)

PropagatingOps ==
    {"Download", "Upload", "readListCommandData", "Login", "StatusOf"}

\* C15: in Download, Upload, list, Login and StatusOf an exchange-level
\* failure is followed by no further command, reply read, dial or copy
\* (only by the close of a data connection already open), and the
\* operation returns that failure as a non-nil error.
C15_FailureStopsOperation ==
    op.name \in PropagatingOps =>
        \A i \in 1..Len(opLog) :
            ExchangeFailure(i) =>
                /\ \A j \in (i + 1)..Len(opLog) : opLog[j].ev = "close"
                /\ ~Has(SubSeq(opLog, 1, i), IsDialEv) => dataConn = "none"
                /\ At("done") =>
                     ret.err = IF opLog[i].err # NoError THEN opLog[i].err
                               ELSE errorMessage(CmdBefore(i),
                                                 opLog[i].response)

C15_Witness ==
    /\ Done("Download")
    /\ Len(opLog) = 4
    /\ opLog[2].code = commandOk
    /\ opLog[3] = SendEv(<<"PASV">>, NoError)
    /\ opLog[4].ev = "recv" /\ opLog[4].response = ReplyOf(syntaxErrorUnknown)
    /\ ret.err = errorMessage("PASV", ReplyOf(syntaxErrorUnknown))
    /\ dataConn = "none"

\* The StatusType the claim gives each status code.
StatusTypeFor(code) ==
    CASE code = systemStatusOrHelpReply -> "status"
      [] code = directoryStatus -> "directory status"
      [] code = fileStatus -> "file status"
      [] OTHER -> "none"

\* C16: StatusOf writes one STAT command, without argument when the path
\* is empty, reads one reply and classifies it by its code: 211 general
\* status, 212 directory status, 213 file status; any other code gives an
\* error naming STAT and no StatusType.
C16_StatusClassification ==
    Done("StatusOf") =>
        /\ Len(opLog) \in {1, 2}
        /\ opLog[1].ev = "send"
        /\ opLog[1].msg = IF op.path = "" THEN <<"STAT">> \o CRLF
                          ELSE <<"STAT", SP, op.path>> \o CRLF
        /\ Len(opLog) = 2 =>
             /\ opLog[2].ev = "recv"
             /\ opLog[2].err = NoError =>
                  LET typ == StatusTypeFor(opLog[2].code) IN
                  IF typ = "none"
                  THEN /\ ret.err = errorMessage("STAT", opLog[2].response)
                       /\ ret.val = Nil
                  ELSE /\ ret.err = NoError
                       /\ ret.val.typ = typ

C16_Witness ==
    /\ Done("StatusOf")
    /\ op.path = ""
    /\ opLog[1] = SendEv(<<"STAT">>, NoError)
    /\ Len(opLog) = 2
    /\ opLog[2].code = directoryStatus
    /\ ret.err = NoError
    /\ ret.val.typ = DirectoryStatus

\* The classes of reply codes the claims speak of.
IsPreliminary(code) == Len(code) = 3 /\ code[1] = "1"
IsCompletion(code) == Len(code) = 3 /\ code[1] = "2"

IsCopyEv(e) == e.ev = "copy"

\* Download or Upload has returned.
TransferDone == At("done") /\ op.name \in {"Download", "Upload"}

\* C12 (as claimed, for the codes the claim singles out): in Download and
\* Upload a reply to RETR/STOR whose code is positive-completion (2xx,
\* such as 226) and not preliminary-positive makes the operation fail with
\* an error naming the command, with the data connection closed and no
\* bytes copied.
C12_TransferReplyMustBePreliminary ==
    TransferDone =>
        \A i \in 1..(Len(opLog) - 1) :
            (/\ opLog[i].ev = "send" /\ opLog[i].msg[1] = op.cmd
             /\ opLog[i + 1].ev = "recv" /\ opLog[i + 1].err = NoError
             /\ IsCompletion(opLog[i + 1].code))
            => /\ ret.err = errorMessage(op.cmd, opLog[i + 1].response)
               /\ closes = 1 /\ dataConn = "closed"
               /\ ~Has(opLog, IsCopyEv)

\* C13 (as claimed, for the codes the claim singles out): after a
\* successful copy and close, a final reply whose code is preliminary
\* (1xx) and not positive-completion makes Download and Upload return an
\* error naming the command.
C13_FinalReplyMustBeCompletion ==
    (TransferDone /\ Len(opLog) >= 3
        /\ opLog[Len(opLog) - 2] = CopyEv(NoError)
        /\ opLog[Len(opLog) - 1] = CloseEv(NoError)
        /\ opLog[Len(opLog)].ev = "recv" /\ opLog[Len(opLog)].err = NoError
        /\ IsPreliminary(opLog[Len(opLog)].code))
    => ret.err = errorMessage(op.cmd, opLog[Len(opLog)].response)

\* The kind of a logged event: the command word of a send, else the event.
EvKind(e) == IF e.ev = "send" THEN e.msg[1] ELSE e.ev

EvKinds == [i \in 1..Len(opLog) |-> EvKind(opLog[i])]

\* C17: a successful Download or Upload consists of, in this order: TYPE I
\* and its reply (only if the tracked type was not Binary), PASV and its
\* 227 reply, the dial, RETR/STOR, its reply, the copy, the close of the
\* data connection and the read of the final confirmation; the final
\* confirmation is never read while the data connection is open.
C17_TransferEventOrder ==
    /\ (TransferDone /\ ret.err = NoError) =>
         LET typed == tt.before # transferBinary
             k == IF typed THEN 2 ELSE 0
         IN /\ EvKinds = (IF typed THEN <<"TYPE", "recv">> ELSE <<>>)
                            \o <<"PASV", "recv", "dial", op.cmd, "recv",
                                 "copy", "close", "recv">>
            /\ typed => opLog[1].msg = <<"TYPE", SP, "I">> \o CRLF
            /\ opLog[k + 2].code = enteringPassiveMode
            /\ \A i \in 1..Len(opLog) : opLog[i].err = NoError
            /\ dataConn = "closed" /\ closes = 1
    /\ (At("Download_receive2") \/ At("upload_receive2")) =>
         (dataConn = "closed" /\ opLog[Len(opLog)] = CloseEv(NoError))
    /\ op.name \in {"Download", "Upload"} =>
         \A i \in 1..Len(opLog) :
            (opLog[i].ev = "recv" /\ Has(SubSeq(opLog, 1, i), IsCopyEv))
            => opLog[i - 1].ev = "close"

C17_Witness ==
    /\ Done("Upload")
    /\ ret.err = NoError
    /\ tt.before = transferASCII
    /\ Len(opLog) = 10
    /\ opLog[10].code = closingDataConnection

\* A setTransferTypeTo call is between its TYPE command and its return.
InSetter == \E i \in 1..Len(stack) : stack[i] = "setTransferTypeTo_return"

\* C18: outside a running setter call the tracked transfer type equals
\* the type of the last TYPE command the server answered with 200 (ASCII
\* if none); once RETR or STOR has been written both are Binary, once LIST
\* or NLST has been written both are ASCII.
C18_TrackedTypeIsAckedType ==
    /\ ~InSetter => transferType = ackedType
    /\ \A i \in 1..Len(opLog) :
         /\ (opLog[i].ev = "send" /\ opLog[i].msg[1] \in {"RETR", "STOR"})
              => (transferType = transferBinary
                     /\ ackedType = transferBinary)
         /\ (opLog[i].ev = "send" /\ opLog[i].msg[1] \in {"LIST", "NLST"})
              => (transferType = transferASCII
                     /\ ackedType = transferASCII)

\* A list operation after a transfer: TYPE A answered with 200 while the
\* tracked type was Binary, and then the list command.
C18_Witness ==
    /\ op.name = "readListCommandData"
    /\ tt.before = transferBinary
    /\ Len(opLog) >= 6
    /\ opLog[1] = SendEv(<<"TYPE", "A">>, NoError)
    /\ opLog[2].ev = "recv" /\ opLog[2].code = commandOk
    /\ opLog[6].ev = "send" /\ opLog[6].msg[1] = "LIST"
    /\ transferType = transferASCII
    /\ ackedType = transferASCII

\* The replies the server sends to the command written at event i: one,
\* and a second one after a preliminary (1xx) reply to a transfer command
\* (the completion of the transfer) and after a 426 reply to ABOR.
RepliesSent(i) ==
    LET cmd == opLog[i].msg[1]
        first == IF i < Len(opLog) /\ opLog[i + 1].ev = "recv"
                 THEN opLog[i + 1].code ELSE <<>>
    IN IF cmd \in {"RETR", "STOR", "LIST", "NLST"} /\ IsPreliminary(first)
       THEN 2
       ELSE IF cmd = "ABOR" /\ first = connectionClosed_TransferAborter
       THEN 2
       ELSE 1

\* The replies read after the command written at event i and before the
\* next command.
RepliesRead(i) ==
    LET later == {k \in (i + 1)..Len(opLog) : opLog[k].ev = "send"}
        stop == IF later = {} THEN Len(opLog) + 1
                ELSE CHOOSE k \in later : \A m \in later : k <= m
    IN Cardinality({j \in (i + 1)..(stop - 1) : opLog[j].ev = "recv"})

\* No write and no read on the control connection has failed.
NoTransportError ==
    \A i \in 1..Len(opLog) :
        opLog[i].ev \in {"send", "recv"} => opLog[i].err = NoError

\* C20 (as claimed): when Download or Upload returns without a transport
\* error on the control connection, every reply the server sent for its
\* commands has been read, also when the copy or the close failed.
C20_RepliesDrained ==
    (TransferDone /\ NoTransportError) =>
        \A i \in 1..Len(opLog) :
            opLog[i].ev = "send" => RepliesRead(i) = RepliesSent(i)

\* C21 (as claimed): when Connect has dialed the control socket and then
\* fails on the greeting (a read error, or a code other than 220), the
\* socket is closed before the error is returned.
C21_FailedConnectClosesSocket ==
    At("failed") => ctrl = "closed"

\* --------------------------------------------------- claims on the framer

FirstCode == SubSeq(finput, 1, 3)

\* A line after the first, complete in msg, that starts with code and space.
HasFinalLine(msg, code) ==
    LET lines == SplitCRLF(msg) IN
    \E i \in 2..(Len(lines) - 1) :
        Len(lines[i]) >= 4 /\ SubSeq(lines[i], 1, 4) = code \o <<SP>>

\* C3 (as claimed): a reply whose first line has '-' as its 4th byte is
\* reported complete only when a later line starts with the same code and
\* a space and the accumulated buffer ends in CR LF.
C3_MultiLineCompleteOnlyAtFinalLine ==
    (Len(finput) >= 4 /\ finput[4] = DASH /\ IsCode(FirstCode)
        /\ fdone /\ ferr = NoError)
    => (HasFinalLine(fall, FirstCode) /\ endsInNewLine(fall))

\* C4: once the accumulated buffer shows a 4th byte that is a space, the
\* framer keeps reading while the buffer does not end in CR LF and returns
\* after the first read that leaves it ending in CR LF; it returns every
\* byte accumulated as the reply and the first 3 bytes as the code. With
\* fewer than 4 bytes accumulated it keeps reading.
C4_SingleLineFraming ==
    ferr = NoError =>
        /\ fall = SubSeq(finput, 1, fpos)
        /\ Len(fall) < 4 => ~fdone
        /\ (Len(fall) >= 4 /\ fall[4] = SP) =>
             /\ fdone <=> endsInNewLine(fall)
             /\ fdone => fresult = [response |-> fall,
                                    code |-> SubSeq(finput, 1, 3),
                                    e |-> NoError]
             /\ ~fdone => fresult = NoResult

C4_Witness ==
    /\ finput = Code211 \o <<SP>> \o CRLF \o Code212 \o <<SP>> \o CRLF
    /\ fpos = Len(finput)
    /\ fdone /\ ferr = NoError
    /\ fresult.code = Code211

\* C5 (as claimed): when a read fails, framing stops, the error is
\* returned and the bytes accumulated before it are not handed out as a
\* reply or a code.
C5_NoPartialReplyOnReadError ==
    ferr # NoError
    => (fdone /\ fresult.e = ferr /\ fresult.response = <<>>
            /\ fresult.code = <<>>)

\* C5 (amended): when a read fails, framing stops at that read and
\* receive() returns the error together with the bytes accumulated before
\* the failing read and their first (at most 3) bytes as the code.
C5_ReadErrorStopsFraming ==
    ferr # NoError
    => /\ fdone
       /\ fall = SubSeq(finput, 1, fpos)
       /\ fresult = [response |-> fall,
                     code |-> SubSeq(fall, 1, Min(3, Len(fall))),
                     e |-> ReadError]

C5_Witness ==
    /\ ferr = ReadError
    /\ fdone
    /\ fall = <<"2", "5">>
    /\ fresult.response = <<"2", "5">>

\* C6 (as claimed): a reply whose code cannot be determined (a terminated
\* line with fewer than 3 bytes before its CR LF) ends framing: it is
\* reported, not waited on.
C6_ShortReplyReported ==
    (fpos > 0 /\ ferr = NoError /\ Len(fall) <= 4 /\ endsInNewLine(fall))
    => (fdone /\ fresult.e # NoError)

\* The bytes of msg up to and including its first CR LF (all of msg when
\* it has none): the first reply of a stream of single-line replies.
FirstLine(msg) ==
    LET hits == {i \in 1..(Len(msg) - 1) : msg[i] = CR /\ msg[i + 1] = LF} IN
    IF hits = {} THEN msg
    ELSE SubSeq(msg, 1, (CHOOSE j \in hits : \A k \in hits : j <= k) + 1)

\* The stream is single-line replies sent back to back, each complete.
BackToBackReplies(msg) ==
    LET lines == SplitCRLF(msg) IN
    /\ endsInNewLine(msg)
    /\ \A i \in 1..(Len(lines) - 1) :
         /\ Len(lines[i]) >= 4
         /\ IsCode(SubSeq(lines[i], 1, 3))
         /\ lines[i][4] = SP

\* C19 (as claimed): when the server sends single-line replies back to
\* back, receive() returns exactly the first of them, with no byte of the
\* reply that follows it, however the bytes are split across reads.
C19_OneReplyPerReceive ==
    (fdone /\ ferr = NoError /\ BackToBackReplies(finput))
    => fresult.response = FirstLine(finput)

====
